---- MODULE Spec2Model ----
(***************************************************************************)
(* A model of include/scrollgrid/raycasting.hpp: the AABB/ray intersection *)
(* test, the 3-D and 2-D Bresenham tracers and the counting tracer.        *)
(*                                                                         *)
(* One behaviour of the model is one use of one of the four functions:     *)
(* Init draws the function (op) and its arguments, the actions are the     *)
(* function's entry code and the iterations of its loops.                  *)
(***************************************************************************)
EXTENDS Integers, Sequences, FiniteSets, TLC

VARIABLES
  op,        \* which function this behaviour runs
  pc,        \* position in the function: "entry", "loopx", "loopy", "loopz", "done", "trapped"
  start,     \* start_pos (int64 components)
  end,       \* end_pos   (int64 components)
  loc,       \* the function's int locals: x y z dx dy dz sx sy sz ax ay az decx decy decz
  cells,     \* the cells handed to fun / grid_to_mem since the function was entered
  exitBy,    \* how the loop was left: "none", "visitor" (fun returned false), "end" (exit test)
  stoppedAt, \* the number of calls of fun when it first returned false, 0 before
  ub,        \* a signed int overflow (undefined behaviour) has happened
  array3,    \* the counting tracer's store, indexed by memory offset
  array0,    \* the store's contents before the first call
  rep,       \* completed calls of bresenham_trace_simple
  box,       \* the AABB: [min, max]
  ray,       \* the ray: [origin, invdir, sign, tmin, tmax]
  ray0,      \* the ray as it was on entry
  hit        \* aabb_ray_intersect's result: "none" before it returns, else TRUE/FALSE

vars == <<op, pc, start, end, loc, cells, exitBy, stoppedAt, ub,
          array3, array0, rep, box, ray, ray0, hit>>

(***************************************************************************)
(* Bounds of the model.                                                    *)
(***************************************************************************)
\* Grid coordinates near the origin are -1..MaxCoord on every axis.
MaxCoord == 1
\* The width of the tracers' `int` working variables, scaled down from the
\* 32 bits of the build so that values that do not fit are within reach of
\* the model checker. Vec3Ix components (int64_t) are modelled as integers.
IntBits == 4
\* A tracer run is followed for at most MaxVisits calls of the visitor.
MaxVisits == 10
\* bresenham_trace_simple is called at most MaxReps times in a row.
MaxReps == 2

(***************************************************************************)
(* int arithmetic                                                          *)
(***************************************************************************)
IntMin == -(2^(IntBits - 1))
IntMax == 2^(IntBits - 1) - 1
InInt(v) == IntMin <= v /\ v <= IntMax

\* The narrowing conversion of `int x = start_pos[0]` (int64_t to int):
\* the value modulo 2^IntBits, in IntMin..IntMax.
ToInt(v) == ((v - IntMin) % (2^IntBits)) + IntMin

\* What a build makes of a signed overflow: the two's complement result
\* ("wrap"), or an abort ("trap", -ftrapv and sanitizer builds).
Outcomes(overflow) == IF overflow THEN {"wrap", "trap"} ELSE {"ok"}

(***************************************************************************)
(* Inputs                                                                  *)
(***************************************************************************)
Near == -1..MaxCoord
NearCells3 == {<<a, b, c>> : a \in Near, b \in Near, c \in Near}
NearCells2 == {<<a, b>> : a \in Near, b \in Near}

\* The first value past the int range whose narrowing is 0.
Far == 2^IntBits
\* Cells whose X coordinate does not fit an int: the cells next to the origin,
\* moved by Far along X.
FarCells3 == {<<Far + a, b, c>> : a \in 0..1, b \in 0..1, c \in 0..1}
FarCells2 == {<<Far + a, b>> : a \in 0..1, b \in 0..1}
\* The cell `far` moved back by Far along X.
Back(far) == [far EXCEPT ![1] = @ - Far]

\* The pairs (start_pos, end_pos) of the tracers: all pairs of near cells,
\* and pairs next to the origin of which one cell or both are far.
Pairs(near, far) ==
  {<<s, e>> : s \in near, e \in near}
    \cup {<<s, e>> : s \in far, e \in far}
    \cup {<<s, Back(e)>> : s \in far, e \in far}
    \cup {<<Back(s), e>> : s \in far, e \in far}

Abs(v) == IF v < 0 THEN -v ELSE v
Max2(a, b) == IF a >= b THEN a ELSE b
Min2(a, b) == IF a <= b THEN a ELSE b

(***************************************************************************)
(* bresenham_trace (3-D): entry code                                       *)
(***************************************************************************)
\* Sign with the branch for a negative delta lost.
Sign_NoNegative(d) == IF d > 0 THEN 1 ELSE 0

\* sx: the step of an axis, from the sign of its delta.
Sign(d) == IF d > 0 THEN 1 ELSE IF d < 0 THEN -1 ELSE 0

\* dx after `dx = -dx`, before it is stored back in the int.
Magnitude(d) == IF d < 0 THEN -d ELSE d

\* ax = 2*dx, before it is stored in the int.
Twice(d) == 2 * d

\* The locals after lines 69-108, and whether an int overflowed on the way.
Locals3(s, e) ==
  LET rx == ToInt(e[1] - s[1])
      ry == ToInt(e[2] - s[2])
      rz == ToInt(e[3] - s[3])
      dx == ToInt(Magnitude(rx))
      dy == ToInt(Magnitude(ry))
      dz == ToInt(Magnitude(rz))
  IN [loc |-> [x |-> ToInt(s[1]), y |-> ToInt(s[2]), z |-> ToInt(s[3]),
               dx |-> dx, dy |-> dy, dz |-> dz,
               sx |-> Sign(rx), sy |-> Sign(ry), sz |-> Sign(rz),
               ax |-> ToInt(Twice(dx)), ay |-> ToInt(Twice(dy)), az |-> ToInt(Twice(dz)),
               decx |-> 0, decy |-> 0, decz |-> 0],
      ovf |-> \E v \in {Magnitude(rx), Magnitude(ry), Magnitude(rz),
                       Twice(dx), Twice(dy), Twice(dz)} : ~InInt(v)]

\* Which loop runs: the chain of if / else if at lines 110, 127, 145.
DrivingAxis(dx, dy, dz) ==
  IF dy <= dx /\ dz <= dx THEN "x"
  ELSE IF dx <= dy /\ dz <= dy THEN "y"
  ELSE IF dx <= dz /\ dy <= dz THEN "z"
  ELSE "none"

\* DecInit with the driving delta forgotten: decy = ay.
DecInit_NoBias(a, d) == a

\* The initial value of a decision variable: decy = ay - dx.
DecInit(a, d) == a - d

\* The init clause of the loop of `axis`.
ForInit(axis, l) ==
  LET drv == IF axis = "x" THEN l.dx ELSE IF axis = "y" THEN l.dy ELSE l.dz
      ix == DecInit(l.ax, drv)
      iy == DecInit(l.ay, drv)
      iz == DecInit(l.az, drv)
  IN CASE axis = "x" -> [loc |-> [l EXCEPT !.decy = ToInt(iy), !.decz = ToInt(iz)],
                         ovf |-> ~InInt(iy) \/ ~InInt(iz)]
       [] axis = "y" -> [loc |-> [l EXCEPT !.decx = ToInt(ix), !.decz = ToInt(iz)],
                         ovf |-> ~InInt(ix) \/ ~InInt(iz)]
       [] axis = "z" -> [loc |-> [l EXCEPT !.decx = ToInt(ix), !.decy = ToInt(iy)],
                         ovf |-> ~InInt(ix) \/ ~InInt(iy)]
       [] OTHER -> [loc |-> l, ovf |-> FALSE]

(***************************************************************************)
(* bresenham_trace (3-D): the loops                                        *)
(***************************************************************************)
\* BreaksOn with the visitor's verdict ignored.
BreaksOn_Never(ret) == FALSE

\* The visitor's verdict that leaves the loop: if(!fun(x, y, z)) break.
BreaksOn(ret) == ~ret

\* MinorStep stepping by +1 whatever the axis' direction.
MinorStep_Unsigned(dec, c, s, a) == IF dec >= 0 THEN <<dec - a, c + 1>> ELSE <<dec, c>>

\* The Bresenham step of a non-driving axis: if (dec >= 0) { dec -= a; c += s; }
MinorStep(dec, c, s, a) == IF dec >= 0 THEN <<dec - a, c + s>> ELSE <<dec, c>>

\* The loop's exit test: the driving coordinate (an int) against the int64 end.
AtEnd(axis, l, e) ==
  CASE axis = "x" -> l.x = e[1]
    [] axis = "y" -> l.y = e[2]
    [] axis = "z" -> l.z = e[3]

\* One pass of the X loop after the exit test: the two steps, then x+=sx, decy+=ay, decz+=az.
BodyX(l) ==
  LET ys == MinorStep(l.decy, l.y, l.sy, l.ax)
      zs == MinorStep(l.decz, l.z, l.sz, l.ax)
      x2 == l.x + l.sx
      decy2 == ToInt(ys[1]) + l.ay
      decz2 == ToInt(zs[1]) + l.az
  IN [loc |-> [l EXCEPT !.x = ToInt(x2), !.y = ToInt(ys[2]), !.z = ToInt(zs[2]),
                        !.decy = ToInt(decy2), !.decz = ToInt(decz2)],
      ovf |-> \E v \in {ys[1], ys[2], zs[1], zs[2], x2, decy2, decz2} : ~InInt(v)]

\* BodyY with the X loop's z step left as it was pasted: it steps z by sx
\* and corrects decz by ax.
BodyY_Pasted(l) ==
  LET xs == MinorStep(l.decx, l.x, l.sx, l.ay)
      zs == MinorStep(l.decz, l.z, l.sx, l.ax)
      y2 == l.y + l.sy
      decx2 == ToInt(xs[1]) + l.ax
      decz2 == ToInt(zs[1]) + l.az
  IN [loc |-> [l EXCEPT !.y = ToInt(y2), !.x = ToInt(xs[2]), !.z = ToInt(zs[2]),
                        !.decx = ToInt(decx2), !.decz = ToInt(decz2)],
      ovf |-> \E v \in {xs[1], xs[2], zs[1], zs[2], y2, decx2, decz2} : ~InInt(v)]

\* One pass of the Y loop after the exit test.
BodyY(l) ==
  LET xs == MinorStep(l.decx, l.x, l.sx, l.ay)
      zs == MinorStep(l.decz, l.z, l.sz, l.ay)
      y2 == l.y + l.sy
      decx2 == ToInt(xs[1]) + l.ax
      decz2 == ToInt(zs[1]) + l.az
  IN [loc |-> [l EXCEPT !.y = ToInt(y2), !.x = ToInt(xs[2]), !.z = ToInt(zs[2]),
                        !.decx = ToInt(decx2), !.decz = ToInt(decz2)],
      ovf |-> \E v \in {xs[1], xs[2], zs[1], zs[2], y2, decx2, decz2} : ~InInt(v)]

\* One pass of the Z loop after the exit test.
BodyZ(l) ==
  LET xs == MinorStep(l.decx, l.x, l.sx, l.az)
      ys == MinorStep(l.decy, l.y, l.sy, l.az)
      z2 == l.z + l.sz
      decx2 == ToInt(xs[1]) + l.ax
      decy2 == ToInt(ys[1]) + l.ay
  IN [loc |-> [l EXCEPT !.z = ToInt(z2), !.x = ToInt(xs[2]), !.y = ToInt(ys[2]),
                        !.decx = ToInt(decx2), !.decy = ToInt(decy2)],
      ovf |-> \E v \in {xs[1], xs[2], ys[1], ys[2], z2, decx2, decy2} : ~InInt(v)]

Body(axis, l) ==
  CASE axis = "x" -> BodyX(l)
    [] axis = "y" -> BodyY(l)
    [] axis = "z" -> BodyZ(l)

LoopPc(axis) ==
  CASE axis = "x" -> "loopx"
    [] axis = "y" -> "loopy"
    [] axis = "z" -> "loopz"
    [] OTHER -> "done"

Cell3(l) == <<l.x, l.y, l.z>>

NoLocals ==
  [x |-> 0, y |-> 0, z |-> 0, dx |-> 0, dy |-> 0, dz |-> 0,
   sx |-> 0, sy |-> 0, sz |-> 0, ax |-> 0, ay |-> 0, az |-> 0,
   decx |-> 0, decy |-> 0, decz |-> 0]

\* What the tracers leave alone.
TracerFrame == UNCHANGED <<op, start, end, array0, box, ray, ray0, hit>>

\* bresenham_trace(Vec3Ix): lines 69-110/127/145, up to the loop's init clause.
Enter3 ==
  /\ op = "trace3" /\ pc = "entry"
  /\ LET s == Locals3(start, end)
         axis == DrivingAxis(s.loc.dx, s.loc.dy, s.loc.dz)
         f == ForInit(axis, s.loc)
     IN \E o \in Outcomes(s.ovf \/ f.ovf) :
          /\ pc' = IF o = "trap" THEN "trapped" ELSE LoopPc(axis)
          /\ loc' = IF o = "trap" THEN loc ELSE f.loc
          /\ ub' = (ub \/ s.ovf \/ f.ovf)
  /\ cells' = <<>>
  /\ UNCHANGED <<exitBy, stoppedAt, array3, rep>>
  /\ TracerFrame

\* One iteration of a loop of bresenham_trace(Vec3Ix): the call of fun, the
\* exit test, the Bresenham steps and the increment clause.
Iterate3(axis) ==
  /\ Len(cells) < MaxVisits
  /\ \E ret \in BOOLEAN :
       /\ cells' = Append(cells, Cell3(loc))
       /\ stoppedAt' = IF ~ret /\ stoppedAt = 0 THEN Len(cells) + 1 ELSE stoppedAt
       /\ IF BreaksOn(ret)
            THEN pc' = "done" /\ exitBy' = "visitor" /\ UNCHANGED <<loc, ub>>
          ELSE IF AtEnd(axis, loc, end)
            THEN pc' = "done" /\ exitBy' = "end" /\ UNCHANGED <<loc, ub>>
          ELSE LET b == Body(axis, loc)
               IN \E o \in Outcomes(b.ovf) :
                    /\ pc' = IF o = "trap" THEN "trapped" ELSE pc
                    /\ loc' = IF o = "trap" THEN loc ELSE b.loc
                    /\ ub' = (ub \/ b.ovf)
                    /\ UNCHANGED exitBy
  /\ UNCHANGED <<array3, rep>>
  /\ TracerFrame

LoopX3 == op = "trace3" /\ pc = "loopx" /\ Iterate3("x")
LoopY3 == op = "trace3" /\ pc = "loopy" /\ Iterate3("y")
LoopZ3 == op = "trace3" /\ pc = "loopz" /\ Iterate3("z")

(***************************************************************************)
(* bresenham_trace_simple: the same walk, counting in array3               *)
(***************************************************************************)
\* The grid has one cell per near coordinate on each axis.
GridDim == MaxCoord + 2

\* ScrollGrid3::grid_to_mem: the coordinates wrapped into the grid's
\* dimension, then the row-major offset.
grid_to_mem(x, y, z) ==
  (x % GridDim) * GridDim * GridDim + (y % GridDim) * GridDim + (z % GridDim)

MemIx == 0..(GridDim * GridDim * GridDim - 1)

\* Increment as an assignment: array3[mem_ix] = 1.
Increment_Assign(v) == 1

\* array3[mem_ix] += 1
Increment(v) == v + 1

\* bresenham_trace_simple: lines 176-217/235/254, up to the loop's init clause.
EnterSimple ==
  /\ op = "simple" /\ pc \in {"entry", "done"} /\ rep < MaxReps
  /\ LET s == Locals3(start, end)
         axis == DrivingAxis(s.loc.dx, s.loc.dy, s.loc.dz)
         f == ForInit(axis, s.loc)
     IN \E o \in Outcomes(s.ovf \/ f.ovf) :
          /\ pc' = IF o = "trap" THEN "trapped" ELSE LoopPc(axis)
          /\ loc' = IF o = "trap" THEN loc ELSE f.loc
          /\ ub' = (ub \/ s.ovf \/ f.ovf)
  /\ cells' = <<>>
  /\ UNCHANGED <<exitBy, stoppedAt, array3, rep>>
  /\ TracerFrame

\* One iteration of a loop of bresenham_trace_simple: the counter of the
\* cell, the exit test, the Bresenham steps and the increment clause.
IterateSimple(axis) ==
  /\ Len(cells) < MaxVisits
  /\ cells' = Append(cells, Cell3(loc))
  /\ LET mem_ix == grid_to_mem(loc.x, loc.y, loc.z)
     IN array3' = [array3 EXCEPT ![mem_ix] = Increment(@)]
  /\ IF AtEnd(axis, loc, end)
       THEN pc' = "done" /\ rep' = rep + 1 /\ UNCHANGED <<loc, ub>>
     ELSE LET b == Body(axis, loc)
          IN \E o \in Outcomes(b.ovf) :
               /\ pc' = IF o = "trap" THEN "trapped" ELSE pc
               /\ loc' = IF o = "trap" THEN loc ELSE b.loc
               /\ ub' = (ub \/ b.ovf)
               /\ UNCHANGED rep
  /\ UNCHANGED <<exitBy, stoppedAt>>
  /\ TracerFrame

SimpleLoopX == op = "simple" /\ pc = "loopx" /\ IterateSimple("x")
SimpleLoopY == op = "simple" /\ pc = "loopy" /\ IterateSimple("y")
SimpleLoopZ == op = "simple" /\ pc = "loopz" /\ IterateSimple("z")

(***************************************************************************)
(* bresenham_trace (2-D)                                                   *)
(***************************************************************************)
\* The locals after lines 280-307, and whether an int overflowed on the way.
Locals2(s, e) ==
  LET rx == ToInt(e[1] - s[1])
      ry == ToInt(e[2] - s[2])
      dx == ToInt(Magnitude(rx))
      dy == ToInt(Magnitude(ry))
  IN [loc |-> [NoLocals EXCEPT !.x = ToInt(s[1]), !.y = ToInt(s[2]),
                               !.dx = dx, !.dy = dy,
                               !.sx = Sign(rx), !.sy = Sign(ry),
                               !.ax = ToInt(Twice(dx)), !.ay = ToInt(Twice(dy))],
      ovf |-> \E v \in {Magnitude(rx), Magnitude(ry), Twice(dx), Twice(dy)} : ~InInt(v)]

\* DrivingAxis2 with a strict first comparison: a tie runs the Y loop.
DrivingAxis2_Strict(dx, dy) ==
  IF dy < dx THEN "x"
  ELSE IF dx <= dy THEN "y"
  ELSE "none"

\* Which loop runs: if (dy <= dx) ... else if (dx <= dy).
DrivingAxis2(dx, dy) ==
  IF dy <= dx THEN "x"
  ELSE IF dx <= dy THEN "y"
  ELSE "none"

\* The init clause of the loop of `axis`: decy = ay - dx, or decx = ax - dy.
ForInit2(axis, l) ==
  LET iy == l.ay - l.dx
      ix == l.ax - l.dy
  IN CASE axis = "x" -> [loc |-> [l EXCEPT !.decy = ToInt(iy)], ovf |-> ~InInt(iy)]
       [] axis = "y" -> [loc |-> [l EXCEPT !.decx = ToInt(ix)], ovf |-> ~InInt(ix)]
       [] OTHER -> [loc |-> l, ovf |-> FALSE]

\* One pass of the 2-D X loop after the exit test.
Body2X(l) ==
  LET ys == IF l.decy >= 0 THEN <<l.decy - l.ax, l.y + l.sy>> ELSE <<l.decy, l.y>>
      x2 == l.x + l.sx
      decy2 == ToInt(ys[1]) + l.ay
  IN [loc |-> [l EXCEPT !.x = ToInt(x2), !.y = ToInt(ys[2]), !.decy = ToInt(decy2)],
      ovf |-> \E v \in {ys[1], ys[2], x2, decy2} : ~InInt(v)]

\* One pass of the 2-D Y loop after the exit test.
Body2Y(l) ==
  LET xs == IF l.decx >= 0 THEN <<l.decx - l.ay, l.x + l.sx>> ELSE <<l.decx, l.x>>
      y2 == l.y + l.sy
      decx2 == ToInt(xs[1]) + l.ax
  IN [loc |-> [l EXCEPT !.y = ToInt(y2), !.x = ToInt(xs[2]), !.decx = ToInt(decx2)],
      ovf |-> \E v \in {xs[1], xs[2], y2, decx2} : ~InInt(v)]

Cell2(l) == <<l.x, l.y>>

\* bresenham_trace(Vec2Ix): lines 280-309/322, up to the loop's init clause.
Enter2 ==
  /\ op = "trace2" /\ pc = "entry"
  /\ LET s == Locals2(start, end)
         axis == DrivingAxis2(s.loc.dx, s.loc.dy)
         f == ForInit2(axis, s.loc)
     IN \E o \in Outcomes(s.ovf \/ f.ovf) :
          /\ pc' = IF o = "trap" THEN "trapped" ELSE LoopPc(axis)
          /\ loc' = IF o = "trap" THEN loc ELSE f.loc
          /\ ub' = (ub \/ s.ovf \/ f.ovf)
  /\ cells' = <<>>
  /\ UNCHANGED <<exitBy, stoppedAt, array3, rep>>
  /\ TracerFrame

\* One iteration of a loop of bresenham_trace(Vec2Ix): fun(x, y, end_cell)
\* with end_cell false, the exit test, the step and the increment clause.
Iterate2(axis) ==
  /\ Len(cells) < MaxVisits
  /\ \E ret \in BOOLEAN :
       /\ cells' = Append(cells, Cell2(loc))
       /\ stoppedAt' = IF ~ret /\ stoppedAt = 0 THEN Len(cells) + 1 ELSE stoppedAt
       /\ IF BreaksOn(ret)
            THEN pc' = "done" /\ exitBy' = "visitor" /\ UNCHANGED <<loc, ub>>
          ELSE IF AtEnd(axis, loc, end)
            THEN pc' = "done" /\ exitBy' = "end" /\ UNCHANGED <<loc, ub>>
          ELSE LET b == IF axis = "x" THEN Body2X(loc) ELSE Body2Y(loc)
               IN \E o \in Outcomes(b.ovf) :
                    /\ pc' = IF o = "trap" THEN "trapped" ELSE pc
                    /\ loc' = IF o = "trap" THEN loc ELSE b.loc
                    /\ ub' = (ub \/ b.ovf)
                    /\ UNCHANGED exitBy
  /\ UNCHANGED <<array3, rep>>
  /\ TracerFrame

LoopX2 == op = "trace2" /\ pc = "loopx" /\ Iterate2("x")
LoopY2 == op = "trace2" /\ pc = "loopy" /\ Iterate2("y")

(***************************************************************************)
(* aabb_ray_intersect                                                      *)
(***************************************************************************)
\* A Scalar: a finite number, an infinity (v its sign) or a NaN.
Fin(n) == [k |-> "fin", v |-> n]
PosInf == [k |-> "inf", v |-> 1]
NegInf == [k |-> "inf", v |-> -1]
NaN == [k |-> "nan", v |-> 0]

\* a > b on Scalars: false when either is a NaN.
FGt(a, b) ==
  /\ a.k # "nan" /\ b.k # "nan"
  /\ CASE a.k = "inf" /\ b.k = "inf" -> a.v > b.v
       [] a.k = "inf" -> a.v > 0
       [] b.k = "inf" -> b.v < 0
       [] OTHER -> a.v > b.v

\* a < b on Scalars.
FLt(a, b) == FGt(b, a)

\* a * b on Scalars: 0 times an infinity is a NaN.
FMul(a, b) ==
  IF a.k = "nan" \/ b.k = "nan" THEN NaN
  ELSE IF a.k = "fin" /\ b.k = "fin" THEN Fin(a.v * b.v)
  ELSE IF a.v = 0 \/ b.v = 0 THEN NaN
  ELSE IF (a.v > 0) = (b.v > 0) THEN PosInf ELSE NegInf

\* Box::bound(i): the min corner for 0, the max corner for 1.
bound(b, i) == IF i = 0 THEN b.min ELSE b.max

\* Ray3's constructor: invdir is 1/direction (an infinity for a 0 component)
\* and sign is 1 where invdir is negative. Directions are unit steps here.
Ray3(origin, direction, t0, t1) ==
  LET inv == [i \in 1..3 |-> IF direction[i] = 0 THEN PosInf ELSE Fin(direction[i])]
  IN [origin |-> origin, direction |-> direction, invdir |-> inv,
      sign |-> [i \in 1..3 |-> IF FLt(inv[i], Fin(0)) THEN 1 ELSE 0],
      tmin |-> Fin(t0), tmax |-> Fin(t1)]

\* (box.bound(side).axis - r.origin.axis) * r.invdir.axis
SlabT(b, r, side, i) == FMul(Fin(bound(b, side)[i] - r.origin[i]), r.invdir[i])

\* The function: its result and the ray it leaves.
aabb_ray_intersect(b, r) ==
  LET tmin0 == SlabT(b, r, r.sign[1], 1)
      tmax0 == SlabT(b, r, 1 - r.sign[1], 1)
      tymin == SlabT(b, r, r.sign[2], 2)
      tymax == SlabT(b, r, 1 - r.sign[2], 2)
  IN IF FGt(tmin0, tymax) \/ FGt(tymin, tmax0) THEN [hit |-> FALSE, r |-> r]
     ELSE
       LET tmin1 == IF FGt(tymin, tmin0) THEN tymin ELSE tmin0
           tmax1 == IF FLt(tymax, tmax0) THEN tymax ELSE tmax0
           tzmin == SlabT(b, r, r.sign[3], 3)
           tzmax == SlabT(b, r, 1 - r.sign[3], 3)
       IN IF FGt(tmin1, tzmax) \/ FGt(tzmin, tmax1) THEN [hit |-> FALSE, r |-> r]
          ELSE
            LET tmin2 == IF FGt(tzmin, tmin1) THEN tzmin ELSE tmin1
                tmax2 == IF FLt(tzmax, tmax1) THEN tzmax ELSE tmax1
            IN [hit |-> TRUE,
                r |-> [r EXCEPT !.tmin = IF FGt(tmin2, r.tmin) THEN tmin2 ELSE @,
                                !.tmax = IF FLt(tmax2, r.tmax) THEN tmax2 ELSE @]]

Intersect ==
  /\ op = "aabb" /\ pc = "entry"
  /\ LET res == aabb_ray_intersect(box, ray)
     IN hit' = res.hit /\ ray' = res.r
  /\ pc' = "done"
  /\ UNCHANGED <<op, start, end, loc, cells, exitBy, stoppedAt, ub,
                 array3, array0, rep, box, ray0>>

(***************************************************************************)
(* The visited cells of a run whose visitor always returns true, as far as *)
(* MaxVisits calls, with overflows wrapping.                               *)
(***************************************************************************)
RECURSIVE Walk3(_, _, _, _)
Walk3(axis, l, e, n) ==
  IF n = 0 \/ axis = "none" THEN <<>>
  ELSE <<Cell3(l)>> \o (IF AtEnd(axis, l, e) THEN <<>>
                        ELSE Walk3(axis, Body(axis, l).loc, e, n - 1))

\* The run of the loop of `axis`, whatever the if chain would choose.
Trace3Along(axis, s, e) == Walk3(axis, ForInit(axis, Locals3(s, e).loc).loc, e, MaxVisits)

Trace3(s, e) ==
  LET l == Locals3(s, e).loc
  IN Trace3Along(DrivingAxis(l.dx, l.dy, l.dz), s, e)

(***************************************************************************)
(* Specification                                                           *)
(***************************************************************************)
NoBox == [min |-> <<0, 0, 0>>, max |-> <<0, 0, 0>>]
NoRay == Ray3(<<0, 0, 0>>, <<0, 0, 0>>, 0, 0)
NoArray == <<>>

InitTrace3 ==
  /\ op = "trace3" /\ pc = "entry"
  /\ \E p \in Pairs(NearCells3, FarCells3) : start = p[1] /\ end = p[2]
  /\ loc = NoLocals /\ cells = <<>> /\ exitBy = "none" /\ stoppedAt = 0 /\ ub = FALSE
  /\ array3 = NoArray /\ array0 = NoArray /\ rep = 0
  /\ box = NoBox /\ ray = NoRay /\ ray0 = NoRay /\ hit = "none"

InitTrace2 ==
  /\ op = "trace2" /\ pc = "entry"
  /\ \E p \in Pairs(NearCells2, FarCells2) : start = p[1] /\ end = p[2]
  /\ loc = NoLocals /\ cells = <<>> /\ exitBy = "none" /\ stoppedAt = 0 /\ ub = FALSE
  /\ array3 = NoArray /\ array0 = NoArray /\ rep = 0
  /\ box = NoBox /\ ray = NoRay /\ ray0 = NoRay /\ hit = "none"

\* The store before the first call: all counters 0, or some of them not.
Stores == {[m \in MemIx |-> 0], [m \in MemIx |-> m % 3]}

\* start_pos and end_pos are inside the grid.
InitSimple ==
  /\ op = "simple" /\ pc = "entry"
  /\ start \in NearCells3 /\ end \in NearCells3
  /\ loc = NoLocals /\ cells = <<>> /\ exitBy = "none" /\ stoppedAt = 0 /\ ub = FALSE
  /\ array0 \in Stores /\ array3 = array0 /\ rep = 0
  /\ box = NoBox /\ ray = NoRay /\ ray0 = NoRay /\ hit = "none"

\* Boxes with min <= max, some of them flat.
Boxes == {[min |-> <<0, 0, 0>>, max |-> <<a, b, 1>>] : a \in 0..MaxCoord, b \in 0..MaxCoord}
Directions == {d \in {<<a, b, c>> : a \in -1..1, b \in -1..1, c \in -1..1} : d # <<0, 0, 0>>}
\* Rays with finite tmin < tmax.
Rays == {Ray3(o, d, 0, t1) : o \in NearCells3, d \in Directions, t1 \in {1, MaxCoord + 2}}

InitAabb ==
  /\ op = "aabb" /\ pc = "entry"
  /\ box \in Boxes /\ ray \in Rays /\ ray0 = ray /\ hit = "none"
  /\ start = <<0, 0, 0>> /\ end = <<0, 0, 0>>
  /\ loc = NoLocals /\ cells = <<>> /\ exitBy = "none" /\ stoppedAt = 0 /\ ub = FALSE
  /\ array3 = NoArray /\ array0 = NoArray /\ rep = 0

Init == InitTrace3 \/ InitTrace2 \/ InitSimple \/ InitAabb

Next ==
  \/ Enter3 \/ LoopX3 \/ LoopY3 \/ LoopZ3
  \/ EnterSimple \/ SimpleLoopX \/ SimpleLoopY \/ SimpleLoopZ
  \/ Enter2 \/ LoopX2 \/ LoopY2
  \/ Intersect

Spec == Init /\ [][Next]_vars

(***************************************************************************)
(* Properties                                                              *)
(***************************************************************************)
\* start and end, and twice every delta between them, fit the int locals.
Fits(s, e) ==
  \A i \in DOMAIN s : InInt(s[i]) /\ InInt(e[i]) /\ InInt(2 * Abs(e[i] - s[i]))

\* The Chebyshev distance: the largest absolute delta.
Cheb(s, e) ==
  LET d == {Abs(e[i] - s[i]) : i \in DOMAIN s}
  IN CHOOSE m \in d : \A k \in d : k <= m

\* Consecutive cells differ by at most 1 on each axis and on at least one axis.
Adjacent(c1, c2) ==
  /\ \A i \in DOMAIN c1 : Abs(c2[i] - c1[i]) <= 1
  /\ c1 # c2

\* The visitor has returned true at every call so far.
AlwaysTrue == stoppedAt = 0

\* C1: for start and end that fit the working ints and a visitor that always
\* returns true, the 3-D tracer calls the visitor max(|delta|) + 1 times and
\* then returns; the first cell is start, the last is end on all three axes,
\* and consecutive cells differ by at most 1 on each axis and on at least one.
C1_PathShape ==
  (op = "trace3" /\ Fits(start, end) /\ AlwaysTrue) =>
    /\ ~ub /\ pc # "trapped"
    /\ Len(cells) <= Cheb(start, end) + 1
    /\ (Len(cells) = Cheb(start, end) + 1) <=> (pc = "done")
    /\ cells # <<>> => cells[1] = start
    /\ pc = "done" => cells[Len(cells)] = end
    /\ \A i \in 1..(Len(cells) - 1) : Adjacent(cells[i], cells[i + 1])

C1_Witness ==
  /\ op = "trace3" /\ pc = "done" /\ AlwaysTrue /\ Fits(start, end)
  /\ Cheb(start, end) >= 2
  /\ start[1] # end[1] /\ start[2] # end[2] /\ start[3] # end[3]
  /\ Abs(end[2] - start[2]) # Abs(end[3] - start[3])

Reverse(s) == [i \in 1..Len(s) |-> s[Len(s) + 1 - i]]

AxisIndex(axis) == CASE axis = "x" -> 1 [] axis = "y" -> 2 [] axis = "z" -> 3

\* The run has visited every cell up to the exit test, the visitor never objecting.
FullRun(o) == op = o /\ pc = "done" /\ exitBy = "end" /\ AlwaysTrue

\* C2 as claimed: the trace from end to start visits the cells of the trace
\* from start to end, in reverse order.
C2_Symmetric ==
  (FullRun("trace3") /\ Fits(start, end)) => Trace3(end, start) = Reverse(cells)

\* C2 as amended: the trace from end to start visits as many cells as the
\* trace from start to end; the i-th cell of the one and the i-th from last
\* of the other agree on the driving axis and are at most 1 apart on the
\* other axes; both runs have the endpoints in common.
C2_ReverseWithinOne ==
  (FullRun("trace3") /\ Fits(start, end)) =>
    LET back == Trace3(end, start)
        n == Len(cells)
        drv == AxisIndex(DrivingAxis(loc.dx, loc.dy, loc.dz))
    IN /\ Len(back) = n
       /\ back[1] = cells[n] /\ back[n] = cells[1]
       /\ \A i \in 1..n :
            /\ back[i][drv] = cells[n + 1 - i][drv]
            /\ \A k \in 1..3 : Abs(back[i][k] - cells[n + 1 - i][k]) <= 1

\* A full run whose reverse run visits another set of cells.
C2_Witness ==
  /\ FullRun("trace3") /\ Fits(start, end)
  /\ {cells[i] : i \in 1..Len(cells)} #
       {Trace3(end, start)[i] : i \in 1..Len(Trace3(end, start))}

\* C7 as claimed: between two consecutive cells exactly one axis changes, by 1.
C7_OneAxisPerStep ==
  (op = "trace3" /\ Fits(start, end)) =>
    \A i \in 1..(Len(cells) - 1) :
      /\ Cardinality({k \in 1..3 : cells[i + 1][k] # cells[i][k]}) = 1
      /\ \A k \in 1..3 : Abs(cells[i + 1][k] - cells[i][k]) <= 1

\* C7 as amended: between two consecutive cells the driving axis changes by
\* exactly one step towards end, and each other axis either stays or moves one
\* step towards end: up to three axes change at once (diagonal moves).
C7_DrivingAxisSteps ==
  (op = "trace3" /\ Fits(start, end) /\ pc # "entry") =>
    LET drv == AxisIndex(DrivingAxis(Abs(end[1] - start[1]), Abs(end[2] - start[2]),
                                     Abs(end[3] - start[3])))
    IN \A i \in 1..(Len(cells) - 1) :
         /\ cells[i + 1][drv] - cells[i][drv] = Sign(end[drv] - start[drv])
         /\ cells[i + 1][drv] # cells[i][drv]
         /\ \A k \in 1..3 :
              cells[i + 1][k] - cells[i][k] \in {0, Sign(end[k] - start[k])}

\* A step that changes all three axes.
C7_Witness ==
  /\ op = "trace3" /\ Fits(start, end)
  /\ \E i \in 1..(Len(cells) - 1) : \A k \in 1..3 : cells[i + 1][k] # cells[i][k]

\* The axes whose absolute delta is the largest.
TiedAxes(s, e) == {a \in {"x", "y", "z"} : Abs(e[AxisIndex(a)] - s[AxisIndex(a)]) = Cheb(s, e)}

C4_EndsWithinChebyshev ==
  op = "trace3" => Len(cells) <= Cheb(start, end) + 1

\* C5: once the visitor has returned false, at its k-th call, the tracer has
\* returned and the visitor has been called k times, no more.
C5_EarlyExit ==
  (op \in {"trace3", "trace2"} /\ stoppedAt > 0) =>
    Len(cells) = stoppedAt /\ pc = "done" /\ exitBy = "visitor"

\* The visitor stopped a Z-driven 3-D run at its second call, before the end.
C5_Witness ==
  /\ op = "trace3" /\ stoppedAt = 2 /\ loc.dz > loc.dx /\ loc.dz > loc.dy
  /\ Len(Trace3(start, end)) > 2

InBox(c, s, e) == \A i \in DOMAIN c : Min2(s[i], e[i]) <= c[i] /\ c[i] <= Max2(s[i], e[i])

\* C8: every cell handed to the visitor or to grid_to_mem lies in the box
\* spanned by start and end.
C8_InsideBox ==
  \A i \in 1..Len(cells) : InBox(cells[i], start, end)

\* What holds of the containment: it holds for start and end that fit the
\* int locals.
InsideBoxWhenFits ==
  Fits(start, end) => \A i \in 1..Len(cells) : InBox(cells[i], start, end)

Cells(seq) == {seq[i] : i \in 1..Len(seq)}

\* C6: after N calls of bresenham_trace_simple with the same start and end,
\* the counter of every cell the 3-D tracer visits for that pair is N more
\* than before the first call, and every other counter is as it was.
C6_CountsPath ==
  (op = "simple" /\ pc \in {"entry", "done"}) =>
    LET path == Cells(Trace3(start, end))
    IN \A c \in NearCells3 :
         array3[grid_to_mem(c[1], c[2], c[3])] =
           array0[grid_to_mem(c[1], c[2], c[3])] + (IF c \in path THEN rep ELSE 0)

\* Two calls have counted a path of three cells from a store that was not all 0.
C6_Witness ==
  /\ op = "simple" /\ pc = "done" /\ rep = 2 /\ Len(cells) >= 3
  /\ \E i \in 1..Len(cells) : array0[grid_to_mem(cells[i][1], cells[i][2], cells[i][3])] # 0
  /\ \E m \in MemIx : array3[m] = array0[m] /\ array0[m] # 0

\* C10: the cells of the 2-D tracer are the (x, y) of the cells of the 3-D
\* tracer run from (start.x, start.y, c) to (end.x, end.y, c), in the same
\* order and as many; the 3-D run stays at z = c and runs the loop of the
\* same driving axis.
C10_TwoDIsThreeDRestricted ==
  (op = "trace2" /\ pc # "entry") =>
    \A c \in Near :
      LET s3 == <<start[1], start[2], c>>
          e3 == <<end[1], end[2], c>>
          p3 == Trace3(s3, e3)
          l3 == Locals3(s3, e3).loc
      IN /\ Len(cells) <= Len(p3)
         /\ \A i \in 1..Len(cells) : cells[i] = <<p3[i][1], p3[i][2]>>
         /\ \A i \in 1..Len(p3) : p3[i][3] = c
         /\ (pc = "done" /\ exitBy = "end") => Len(cells) = Len(p3)
         /\ pc \in {"loopx", "loopy"} => pc = LoopPc(DrivingAxis(l3.dx, l3.dy, l3.dz))

\* A full Y-driven 2-D run of three cells on which x moves too.
C10_Witness ==
  /\ FullRun("trace2") /\ Fits(start, end)
  /\ loc.dy > loc.dx /\ loc.dx > 0 /\ Len(cells) >= 3

\* The parameters t at which the ray is between the box's two planes of axis
\* i: the range lo..hi, every t ("all") or no t ("none") for a ray parallel
\* to the planes.
SlabInterval(b, r, i) ==
  LET lo == b.min[i] - r.origin[i]
      hi == b.max[i] - r.origin[i]
  IN CASE r.direction[i] = 1 -> [k |-> "range", lo |-> lo, hi |-> hi]
       [] r.direction[i] = -1 -> [k |-> "range", lo |-> -hi, hi |-> -lo]
       [] OTHER -> [k |-> IF lo <= 0 /\ 0 <= hi THEN "all" ELSE "none", lo |-> 0, hi |-> 0]

\* Some t of [r.tmin, r.tmax] lies in all three slab intervals. The bounds
\* are whole numbers, so a common t exists iff a whole one does.
SegmentMeetsSlabs(b, r) ==
  LET iv == [i \in 1..3 |-> SlabInterval(b, r, i)]
  IN /\ \A i \in 1..3 : iv[i].k # "none"
     /\ \E t \in r.tmin.v .. r.tmax.v :
          \A i \in 1..3 : iv[i].k = "range" => (iv[i].lo <= t /\ t <= iv[i].hi)

\* C3: aabb_ray_intersect returns true exactly when the segment
\* [r.tmin, r.tmax] of the ray, as it is on entry, meets all three slabs.
C3_ExactOverlap ==
  (op = "aabb" /\ pc = "done") => (hit <=> SegmentMeetsSlabs(box, ray0))

====
